---- MODULE Spec2Model ----
(***************************************************************************)
(* Model of the repostr backend's transcription pipeline:                  *)
(*   - AudioProcessor.merge_transcriptions (audio_utils.py and             *)
(*     audio_utils_minimal.py), driven by TranscriptionManager's chunk     *)
(*     loop                                                  (SpecMerge)   *)
(*   - TranscriptionManager's request_times rate limiter shared by the     *)
(*     two background workers                                (SpecRate)    *)
(*   - the anonymous session / project status life cycle: upload request,  *)
(*     background job, claim                                 (SpecSession) *)
(*   - one TranscriptionManager.transcribe call: provider selection, file  *)
(*     preparation, provider fallback                     (SpecTranscribe) *)
(*   - BackgroundTaskService's two-worker executor running                 *)
(*     process_transcription tasks                         (SpecExecutor)  *)
(*   - one HTTP request to an anonymous endpoint with the retry helpers    *)
(*     of the routes                                        (SpecRequest)  *)
(*   - one AudioProcessor.split_audio_into_chunks call        (SpecSplit)  *)
(*   - the upload requests of one client IP against the hourly and daily   *)
(*     limits                                                 (SpecUsage)  *)
(*   - the session life cycle with the request and the job scheduled       *)
(*     fairly                                           (FairSpecSession)  *)
(* Times and durations are whole seconds.  A text is a sequence of tokens: *)
(* a token is a word or the single blank SP.                               *)
(***************************************************************************)
EXTENDS Integers, Sequences, FiniteSets, TLC

VARIABLES
    \* ---- merge pipeline (manager._process_chunks) ----
    provider_out,     \* family of results the provider returns in this run
    chunk_results,    \* manager.py:213  chunk_results = []
    merged,           \* value returned (or error raised) by merge_transcriptions
    merged_by,        \* which AudioProcessor implementation produced `merged`
    \* ---- rate limiter (TranscriptionManager shared by the workers) ----
    now,              \* datetime.utcnow(), whole seconds
    request_times,    \* manager.py:64   self.request_times
    submissions,      \* history: time of every provider submission
    wpc,              \* position of each worker inside transcribe()
    wleft,            \* provider submissions the worker's call still has to make
    wsent,            \* provider submissions the worker's call has made
    wlast,            \* time of the worker's latest provider submission
    \* ---- anonymous session life cycle ----
    sess_status,      \* anonymous_sessions.status ("none": no row yet)
    sess_project,     \* anonymous_sessions.project_id is set
    sess_transcription, \* anonymous_sessions.transcription_id is set
    sess_claimed_by,  \* anonymous_sessions.claimed_by_user_id
    sess_expired,     \* expires_at < utcnow()
    proj_status,      \* projects.status ("none": no row yet)
    transcription_row, \* a transcriptions row referencing the session exists
    req_pc,           \* position of the upload request (create_anonymous_upload)
    job_pc,           \* position of the background job
    job_has_session_id, \* 'session_id' in locals() of the job
    job_result,       \* what process_anonymous_transcription returned
    claim_pc,         \* per user: position of the claim request
    faults,           \* database / provider calls that raised so far
    \* ---- one TranscriptionManager.transcribe call ----
    providers,        \* manager.py:55   self.providers (the registered ones)
    primary_provider, \* manager.py:52   self.primary_provider
    file_valid,       \* validate_file accepts the file (it exists, known format)
    file_info,        \* get_audio_info of the file and of its compressed copy
    t_requested,      \* the `provider` argument of the running invocation
    t_attempts,       \* history: one record per invocation of transcribe
    t_pc,             \* position of the call
    t_error,          \* the exception in flight or raised to the caller
    prepared,         \* what prepare_file_for_transcription returned last
    temp_files,       \* temporary files the call wrote that still exist
    \* ---- BackgroundTaskService: the executor and its tasks ----
    ex_queue,         \* work items the executor holds for a free worker
    ex_worker,        \* per worker thread: the task it runs (0: none)
    ex_held,          \* history: tasks submitted while every worker was busy
    task_pc,          \* per task: position inside process_transcription
    task_project,     \* per task: projects.status of its project
    ex_faults,        \* database / transcription calls of tasks that raised
    \* ---- one HTTP request to an anonymous endpoint ----
    ep,               \* the endpoint the request goes to
    ep_pc,            \* position of the route handler
    svc_attempt,      \* attempts get_anonymous_service_with_retry has made
    op_attempt,       \* invocations of the endpoint's service operation
    op_last,          \* outcome of the latest invocation
    response,         \* what the client receives
    db,               \* the session the token names, its project, transcription
    session_age,      \* days between the session's created_at and utcnow()
    created,          \* objects this request created, by kind
    \* ---- one AudioProcessor.split_audio_into_chunks call ----
    audio_len,        \* audio_utils.py:168  len(audio)
    chunk_duration,   \* audio_utils.py:158  chunk_duration_ms
    overlap,          \* audio_utils.py:159  overlap_ms
    split_start,      \* audio_utils.py:165  start
    chunk_paths,      \* audio_utils.py:163  chunk_paths: the span each file holds
    split_pc,         \* position of the call
    \* ---- anonymous uploads of one client IP ----
    hour,             \* the clock hour utcnow() lies in
    usage_tracking,   \* per hour: usage_tracking rows of the IP created in it
    up_pc,            \* per upload request: position in create_anonymous_upload
    accepted          \* history, per hour: uploads answered with success in it

mergeVars   == <<provider_out, chunk_results, merged, merged_by>>
rateVars    == <<now, request_times, submissions, wpc, wleft, wsent, wlast>>
sessionVars == <<sess_status, sess_project, sess_transcription, sess_claimed_by,
                 sess_expired, proj_status, transcription_row, req_pc, job_pc,
                 job_has_session_id, job_result, claim_pc, faults>>
transcribeVars == <<providers, primary_provider, file_valid, file_info,
                    t_requested, t_attempts, t_pc, t_error, prepared,
                    temp_files>>
executorVars == <<ex_queue, ex_worker, ex_held, task_pc, task_project,
                  ex_faults>>
requestVars == <<ep, ep_pc, svc_attempt, op_attempt, op_last, response, db,
                 session_age, created>>
splitVars   == <<audio_len, chunk_duration, overlap, split_start, chunk_paths,
                 split_pc>>
usageVars   == <<hour, usage_tracking, up_pc, accepted>>
laterVars   == <<splitVars, usageVars>>
serviceVars == <<transcribeVars, executorVars, requestVars, laterVars>>
vars == <<mergeVars, rateVars, sessionVars, serviceVars>>

-----------------------------------------------------------------------------
(* Bounds of the model *)

MaxChunks == 3      \* chunk results per merge
MaxDur == 2         \* longest chunk duration returned by the provider
MaxTime == 4        \* the clock stops here
MaxFiles == 2       \* files one transcribe call submits (1: no chunking)
MaxRequests == 4    \* provider submissions in one run
MaxFaults == 2      \* database / provider calls that raise in one run
MaxSizeMb == 3      \* largest audio file, in MB
MaxTasks == 3       \* tasks submitted to the executor in one run
MaxAge == 8         \* days a session is followed after its creation

-----------------------------------------------------------------------------
(* Texts: str.split(), " ".join(...) *)

SP == " "
Words == {"a", "b", "m"}

Rep(w, n) == [k \in 1..n |-> w]

FirstN(s, n) == SubSeq(s, 1, IF Len(s) < n THEN Len(s) ELSE n)
LastN(s, n) == SubSeq(s, (IF Len(s) < n THEN 0 ELSE Len(s) - n) + 1, Len(s))
DropN(s, n) == SubSeq(s, (IF Len(s) < n THEN Len(s) ELSE n) + 1, Len(s))

\* text.split(): the words of a text, blanks dropped
IsWord(tok) == tok # SP
Split(text) == SelectSeq(text, IsWord)

\* " ".join(words): one blank between consecutive words
RECURSIVE JoinWords(_)
JoinWords(words) ==
    IF words = <<>> THEN <<>>
    ELSE IF Len(words) = 1 THEN <<words[1]>>
    ELSE <<words[1], SP>> \o JoinWords(Tail(words))

\* " ".join(texts): one blank between consecutive texts, empty ones included
RECURSIVE JoinTexts(_)
JoinTexts(texts) ==
    IF texts = <<>> THEN <<>>
    ELSE IF Len(texts) = 1 THEN texts[1]
    ELSE texts[1] \o <<SP>> \o JoinTexts(Tail(texts))

\* len(text.split())
WordCount(text) == Len(Split(text))

-----------------------------------------------------------------------------
(* What the provider returns for one chunk (groq_service.transcribe_file)   *)

\* a Whisper segment of a chunk; times are relative to the chunk's start
Segment(id, start, end) == [id |-> id, start |-> start, end |-> end]

\* segment lists of a chunk that lasts d: ordered by time, inside [0, d]
SegLists(d) ==
    {<<>>}
    \cup {<<Segment(0, s, d)>> : s \in 0..d}
    \cup {<<Segment(0, 0, s), Segment(1, s, d)>> : s \in 1..(d - 1)}

\* verbose_json result: text, language, duration, segments, provider, model
\* and the word count of the text
GroqResult(text, duration, segments) ==
    [text |-> text, language |-> "en", duration |-> duration,
     segments |-> segments, provider |-> "groq", model |-> "whisper-large-v3",
     word_count |-> WordCount(text)]

\* a result dictionary without the "word_count" key
BareResult(text, duration, segments) ==
    [text |-> text, language |-> "en", duration |-> duration,
     segments |-> segments, provider |-> "groq", model |-> "whisper-large-v3"]

W11(h, t) == JoinWords(Rep(h, 5) \o <<"m">> \o Rep(t, 5))   \* 11 words
W10(h) == JoinWords(Rep(h, 10))                              \* 10 words

\* texts of overlapping chunks: long and short, repeating the previous tail
\* or not, with Whisper's leading blank, and empty
ChunkTexts ==
    {W11("a", "a"), W11("b", "a"), W10("a"), <<"a">>,
     <<SP>> \o W11("a", "a"), <<>>}

Families == {"texts", "timings", "bare"}

ProviderResults(family) ==
    CASE family = "texts" ->
           {GroqResult(t, 1, <<Segment(0, 0, 1)>>) : t \in ChunkTexts}
      [] family = "timings" ->
           UNION {{GroqResult(<<"a">>, d, sl) : sl \in SegLists(d)} : d \in 1..MaxDur}
      [] family = "bare" ->
           {BareResult(t, 1, <<>>) : t \in {<<"a">>, W11("a", "a"), <<>>}}

-----------------------------------------------------------------------------
(* AudioProcessor.merge_transcriptions, audio_utils.py                      *)

DefaultOverlapSeconds == 5
DedupMinWords == 10
DedupWindow == 5
PrevTailWords == 10

\* dict.get(key, default) / "key" in dict
Get(d, key, default) == IF key \in DOMAIN d THEN d[key] ELSE default

\* the heuristic applied from ten words on
DedupText_ge(merged_text, text, i, overlap_seconds) ==
    IF i > 1 /\ overlap_seconds > 0
    THEN LET words == Split(text) IN
         IF Len(words) >= 10
         THEN LET prev_words ==
                     IF merged_text # <<>>
                     THEN LastN(Split(merged_text[Len(merged_text)]), 10)
                     ELSE <<>>
              IN IF prev_words # <<>> /\ FirstN(words, 5) = LastN(prev_words, 5)
                 THEN JoinWords(DropN(words, 5))
                 ELSE text
         ELSE text
    ELSE text

\* lines 231-241: text of chunk number i (1-based) after the overlap heuristic;
\* merged_text holds the texts of the chunks before it
DedupText(merged_text, text, i, overlap_seconds) ==
    IF i > 1 /\ overlap_seconds > 0
    THEN LET words == Split(text) IN
         IF Len(words) > DedupMinWords
         THEN LET prev_words ==
                     IF merged_text # <<>>
                     THEN LastN(Split(merged_text[Len(merged_text)]), PrevTailWords)
                     ELSE <<>>
              IN IF prev_words # <<>>
                    /\ FirstN(words, DedupWindow) = LastN(prev_words, DedupWindow)
                 THEN JoinWords(DropN(words, DedupWindow))
                 ELSE text
         ELSE text
    ELSE text

\* the segment appended without rebasing
ShiftSegment_none(segment, i, total_duration) == segment

\* lines 249-252: the segment as appended for chunk number i (1-based)
ShiftSegment(segment, i, total_duration) ==
    IF i > 1
    THEN [segment EXCEPT !.start = @ + total_duration, !.end = @ + total_duration]
    ELSE segment

\* only the start of each segment rebased
ShiftSegments_start(chunk, i, total_duration) ==
    IF "segments" \in DOMAIN chunk
    THEN [k \in 1..Len(chunk.segments) |->
            IF i > 1
            THEN [chunk.segments[k] EXCEPT !.start = @ + total_duration]
            ELSE chunk.segments[k]]
    ELSE <<>>

\* lines 246-252
ShiftSegments(chunk, i, total_duration) ==
    IF "segments" \in DOMAIN chunk
    THEN [k \in 1..Len(chunk.segments) |->
            ShiftSegment(chunk.segments[k], i, total_duration)]
    ELSE <<>>

\* the duration overwritten instead of accumulated
AddDuration_assign(total_duration, chunk) ==
    IF "duration" \in DOMAIN chunk THEN chunk.duration ELSE total_duration

\* lines 255-256
AddDuration(total_duration, chunk) ==
    IF "duration" \in DOMAIN chunk THEN total_duration + chunk.duration
    ELSE total_duration

\* lines 223-256: the loop, from chunk number i on
RECURSIVE MergeLoop(_, _, _, _, _)
MergeLoop(chunks, i, merged_text, merged_segments, total_duration) ==
    IF i > Len(chunks)
    THEN [merged_text |-> merged_text, merged_segments |-> merged_segments,
          total_duration |-> total_duration]
    ELSE LET chunk == chunks[i]
             text == DedupText(merged_text, Get(chunk, "text", <<>>), i,
                               DefaultOverlapSeconds)
         IN MergeLoop(chunks, i + 1,
                      Append(merged_text, text),
                      merged_segments \o ShiftSegments(chunk, i, total_duration),
                      AddDuration(total_duration, chunk))

\* lines 258-276: the merged result of two or more chunks
MergeMany(chunks) ==
    LET acc == MergeLoop(chunks, 1, <<>>, <<>>, 0)
        text == JoinTexts(acc.merged_text)
        result == [text |-> text,
                   provider |-> Get(chunks[1], "provider", "groq"),
                   model |-> Get(chunks[1], "model", "None"),
                   language |-> Get(chunks[1], "language", "None"),
                   duration |-> acc.total_duration,
                   chunks_processed |-> Len(chunks),
                   word_count |-> WordCount(text)]
    IN IF acc.merged_segments # <<>>
       THEN result @@ [segments |-> acc.merged_segments]
       ELSE result

MergeError == [error |-> "No transcription chunks to merge"]

\* without the single-chunk return
merge_transcriptions_always(transcription_chunks) ==
    IF transcription_chunks = <<>> THEN MergeError
    ELSE MergeMany(transcription_chunks)

\* lines 199-280
merge_transcriptions(transcription_chunks) ==
    IF transcription_chunks = <<>> THEN MergeError
    ELSE IF Len(transcription_chunks) = 1 THEN transcription_chunks[1]
    ELSE MergeMany(transcription_chunks)

-----------------------------------------------------------------------------
(* AudioProcessor.merge_transcriptions, audio_utils_minimal.py              *)

RECURSIVE SumWordCounts(_)
\* line 106: sum(result.get("word_count", 0) for result in ...)
SumWordCounts(results) ==
    IF results = <<>> THEN 0
    ELSE Get(results[1], "word_count", 0) + SumWordCounts(Tail(results))

\* lines 96-116
merge_transcriptions_minimal(transcription_results) ==
    IF transcription_results = <<>> THEN [text |-> <<>>, word_count |-> 0]
    ELSE IF Len(transcription_results) = 1 THEN transcription_results[1]
    ELSE LET merged_text ==
                 JoinTexts([k \in 1..Len(transcription_results) |->
                              Get(transcription_results[k], "text", <<>>)])
             total_words == SumWordCounts(transcription_results)
         IN [text |-> merged_text, word_count |-> total_words,
             chunks_processed |-> Len(transcription_results)]
            @@ transcription_results[1]

-----------------------------------------------------------------------------
(* TranscriptionManager: the request_times rate limiter                     *)

NumWorkers == 2
Workers == 1..NumWorkers

\* settings.TRANSCRIPTION_RATE_LIMIT_REQUESTS / _WINDOW, scaled down
rate_limit_requests == 2
rate_limit_window == 3

ChunkDelay == 2

\* lines 247-253: the request times that stay after the clean-up at time t
CleanRequestTimes(times, t) ==
    LET window_start == t - rate_limit_window
        Recent(x) == x > window_start
    IN SelectSeq(times, Recent)

\* the limit test off by one
LimitExceeded_gt(times) == Len(times) > rate_limit_requests

\* line 256
LimitExceeded(times) == Len(times) >= rate_limit_requests

\* lines 243-258: TRUE when _check_rate_limit raises at time t
RateLimitRaises(times, t) ==
    IF rate_limit_requests = 0 THEN FALSE
    ELSE LimitExceeded(CleanRequestTimes(times, t))

\* line 257
WaitTime(times, t) ==
    rate_limit_window - (t - CleanRequestTimes(times, t)[1])

-----------------------------------------------------------------------------
(* TranscriptionManager.transcribe and AudioProcessor's file preparation    *)

NoResult == [pending |-> TRUE]

Providers == {"groq", "openai"}
NoProvider == "none"
Unbound == "unbound"
NoError == "none"

\* settings.MAX_AUDIO_FILE_SIZE_MB, scaled down
max_file_size_mb == 2

Bitrates == {32000, 64000, 128000}

\* the bitrate test with the threshold included
NeedsCompression_ge(bitrate) == bitrate >= 64000

\* audio_utils.py:319
NeedsCompression(bitrate) == bitrate > 64000

\* audio_utils.py:307-339: the treatment of a file whose get_audio_info is
\* info; `files` names what the returned list holds
prepare_file_for_transcription(info) ==
    IF info.size_mb <= max_file_size_mb
    THEN [files |-> "original", needs_merging |-> FALSE]
    ELSE IF NeedsCompression(info.bitrate)
         THEN IF info.compressed_size_mb <= max_file_size_mb
              THEN [files |-> "compressed", needs_merging |-> FALSE]
              ELSE [files |-> "chunks_of_compressed", needs_merging |-> TRUE]
         ELSE [files |-> "chunks_of_original", needs_merging |-> TRUE]

\* manager.py:105-116: without ffmpeg the file is submitted as it is
DirectFile == [files |-> "original", needs_merging |-> FALSE, direct |-> TRUE]

\* audio_utils.py:104, 175: the temporary files behind a prepared list
TempFilesOf(files) ==
    IF files = "compressed" THEN {"compressed"}
    ELSE IF files \in {"chunks_of_compressed", "chunks_of_original"}
         THEN {"chunks"}
         ELSE {}

\* audio_utils.py:318-343: the temporary files a preparation that raises may
\* have written: none when get_audio_info or the compression raised before
\* writing; the compressed copy when its get_audio_info or the split raised
\* (the unlink at 332 is not reached); chunk files when an export of the
\* split raised
PrepareLeftovers(info) ==
    IF info.size_mb <= max_file_size_mb THEN {{}}
    ELSE IF NeedsCompression(info.bitrate)
         THEN {{}, {"compressed"}} \cup
              (IF info.compressed_size_mb <= max_file_size_mb THEN {}
               ELSE {{"compressed", "chunks"}})
         ELSE {{}, {"chunks"}}

\* manager.py:90
SelectedProvider(requested, primary) ==
    IF requested # NoProvider THEN requested ELSE primary

\* what can go wrong after the provider was selected: the rate-limit check
\* raises, the preparation raises, ffmpeg is missing, the provider call raises
TranscribeEvents == {"none", "rate_limit", "prepare", "no_ffmpeg", "provider"}

\* manager.py:85-152: one run of the try block; `selected` is the value of
\* the local selected_provider when the block is left, `failed_at` the step
\* that raised ("none": the result is returned)
TranscribeTry(requested, primary, registered, valid, event) ==
    IF ~valid
    THEN [selected |-> Unbound, failed_at |-> "validate",
          error |-> "validate_error"]
    ELSE LET sel == SelectedProvider(requested, primary) IN
         IF sel \notin registered
         THEN [selected |-> sel, failed_at |-> "select",
               error |-> "select_error"]
         ELSE IF event \in {"rate_limit", "prepare", "provider"}
              THEN [selected |-> sel, failed_at |-> event,
                    error |-> IF event = "rate_limit" THEN "rate_limit_error"
                              ELSE IF event = "prepare" THEN "prepare_error"
                              ELSE "provider_error"]
              ELSE [selected |-> sel, failed_at |-> "none", error |-> NoError]

\* the fallback test without the test of the provider that failed
FallbackAvailable_any(selected, registered) == "openai" \in registered

\* manager.py:158
FallbackAvailable(selected, registered) ==
    selected = "groq" /\ "openai" \in registered

-----------------------------------------------------------------------------
(* The anonymous routes: service operations and the retry helpers          *)

Endpoints == {"health", "rate_limit", "upload", "status", "results", "claim"}

\* anonymous_service.py:843: timedelta(days=7)
SessionExpiryDays == 7

\* the expiry test with the boundary included
is_session_expired_le(expires_at, current_time) == expires_at <= current_time

\* anonymous_service.py:586-593
is_session_expired(expires_at, current_time) == expires_at < current_time

\* days are counted from created_at
Expired(age) == is_session_expired(SessionExpiryDays, age)

\* an operation returns a value or raises an HTTPException
Result(body) == [kind |-> "result", status |-> 200, body |-> body]
Http(status, error) == [kind |-> "http", status |-> status, error |-> error]

\* the session, project and transcription rows as the upload request and the
\* background job leave them
DbStates ==
    {[status |-> "none", project |-> "none", transcription |-> FALSE],
     [status |-> "uploaded", project |-> "uploading", transcription |-> FALSE],
     [status |-> "processing", project |-> "processing", transcription |-> FALSE],
     [status |-> "completed", project |-> "completed", transcription |-> TRUE],
     [status |-> "claimed", project |-> "completed", transcription |-> TRUE],
     [status |-> "failed", project |-> "failed", transcription |-> FALSE],
     [status |-> "failed", project |-> "failed", transcription |-> TRUE]}

\* anonymous_service.py:1165-1212 then 205-218 / 292-304: read the session by
\* its token and test its expiry; "found" lets the operation go on
SessionLookup(row, age, read) ==
    IF read = "raises" THEN Http(500, "session_retrieval_failed")
    ELSE IF row.status = "none" THEN Http(404, "session_not_found")
    ELSE IF Expired(age) THEN Http(410, "session_expired")
    ELSE Result("found")

\* anonymous_service.py:205-266
get_session_status(row, age, read) ==
    LET session == SessionLookup(row, age, read) IN
    IF session.kind # "result" THEN session
    ELSE Result([status |-> row.status, is_expired |-> FALSE])

\* anonymous_service.py:291-406; a transcription read that raises yields no
\* transcription (1303-1334)
get_blurred_results(row, age, read, read_transcription) ==
    LET session == SessionLookup(row, age, read) IN
    IF session.kind # "result" THEN session
    ELSE IF row.status = "processing" THEN Http(202, "still_processing")
    ELSE IF row.status = "failed" THEN Http(422, "processing_failed")
    ELSE IF ~row.transcription \/ read_transcription = "raises"
         THEN Http(404, "transcription_not_found")
    ELSE Result([status |-> row.status, preview |-> TRUE])

\* anonymous_service.py:540-582: failing reads give the conservative answer
get_rate_limit_info(read) ==
    Result([is_limited |-> read = "raises"])

\* routes/anonymous.py:221-222, 172-173, 262-267, 294-299, 344-349: the
\* max_retries each route gives execute_with_retry; the upload route calls
\* create_anonymous_upload directly
OperationRetries_default(endpoint) == 2

OperationRetries(endpoint) ==
    IF endpoint = "upload" THEN 0
    ELSE IF endpoint = "claim" THEN 1
    ELSE 2

\* routes/anonymous.py:124 and the default of line 33
ServiceRetries(endpoint) == IF endpoint = "health" THEN 2 ELSE 3

\* one comparison too many
MayRetry_le(attempt, max_retries) == attempt <= max_retries

\* routes/anonymous.py:98, 110 (and 52 with max_retries - 1)
MayRetry(attempt, max_retries) == attempt < max_retries

\* routes/anonymous.py:85-116: what the loop does with the outcome of its
\* invocation number `attempt` (from 0)
execute_with_retry(outcome, attempt, max_retries) ==
    IF outcome.kind = "result"
    THEN [do |-> "return", response |-> outcome]
    ELSE IF outcome.kind = "http"
         THEN IF 400 <= outcome.status /\ outcome.status < 500
              THEN [do |-> "raise", response |-> outcome]
              ELSE IF MayRetry(attempt, max_retries)
                   THEN [do |-> "retry", response |-> NoResult]
                   ELSE [do |-> "raise", response |-> outcome]
         ELSE IF MayRetry(attempt, max_retries)
              THEN [do |-> "retry", response |-> NoResult]
              ELSE [do |-> "raise", response |-> Http(500, "operation_failed")]

-----------------------------------------------------------------------------
(* BackgroundTaskService: ThreadPoolExecutor(max_workers=2) and its tasks   *)

Tasks == 1..MaxTasks

\* every worker counts as free
FreeWorkers_all(worker) == DOMAIN worker

\* the worker threads that run no task
FreeWorkers(worker) == {w \in DOMAIN worker : worker[w] = 0}

\* the positions at which a task occupies a worker thread
TaskRunning ==
    {"project_processing", "transcribe", "insert_transcription",
     "project_completed", "handler"}

-----------------------------------------------------------------------------
(* Initial values of the parts                                              *)

NoUser == "nobody"
Users == {"u1", "u2"}

MergeIdle ==
    /\ provider_out = "texts"
    /\ chunk_results = <<>>
    /\ merged = NoResult
    /\ merged_by = "none"

RateIdle ==
    /\ now = 0
    /\ request_times = <<>>
    /\ submissions = <<>>
    /\ wpc = [w \in Workers |-> "idle"]
    /\ wleft = [w \in Workers |-> 0]
    /\ wsent = [w \in Workers |-> 0]
    /\ wlast = [w \in Workers |-> 0]

SessionIdle ==
    /\ sess_status = "none"
    /\ sess_project = FALSE
    /\ sess_transcription = FALSE
    /\ sess_claimed_by = NoUser
    /\ sess_expired = FALSE
    /\ proj_status = "none"
    /\ transcription_row = FALSE
    /\ req_pc = "create_session"
    /\ job_pc = "not_submitted"
    /\ job_has_session_id = FALSE
    /\ job_result = "none"
    /\ claim_pc = [u \in Users |-> "idle"]
    /\ faults = 0

TranscribeIdle ==
    /\ providers = {"groq"}
    /\ primary_provider = "groq"
    /\ file_valid = TRUE
    /\ file_info = [size_mb |-> 0, bitrate |-> 64000, compressed_size_mb |-> 0]
    /\ t_requested = NoProvider
    /\ t_attempts = <<>>
    /\ t_pc = "idle"
    /\ t_error = NoError
    /\ prepared = NoResult
    /\ temp_files = {}

ExecutorIdle ==
    /\ ex_queue = <<>>
    /\ ex_worker = [w \in Workers |-> 0]
    /\ ex_held = {}
    /\ task_pc = [t \in Tasks |-> "not_submitted"]
    /\ task_project = [t \in Tasks |-> "uploaded"]
    /\ ex_faults = 0

NoneCreated ==
    [storage |-> 0, session |-> 0, project |-> 0, job |-> 0, usage |-> 0]

RequestIdle ==
    /\ ep = "health"
    /\ ep_pc = "idle"
    /\ svc_attempt = 0
    /\ op_attempt = 0
    /\ op_last = NoResult
    /\ response = NoResult
    /\ db = [status |-> "none", project |-> "none", transcription |-> FALSE]
    /\ session_age = 0
    /\ created = NoneCreated

SplitIdle ==
    /\ audio_len = 0
    /\ chunk_duration = 1
    /\ overlap = 0
    /\ split_start = 0
    /\ chunk_paths = <<>>
    /\ split_pc = "idle"

MaxUploads == 4
MaxHour == 1
Uploads == 1..MaxUploads
Hours == 0..MaxHour

UsageIdle ==
    /\ hour = 0
    /\ usage_tracking = [h \in Hours |-> 0]
    /\ up_pc = [u \in Uploads |-> "idle"]
    /\ accepted = [h \in Hours |-> 0]

LaterIdle == SplitIdle /\ UsageIdle

ServiceIdle == TranscribeIdle /\ ExecutorIdle /\ RequestIdle /\ LaterIdle

-----------------------------------------------------------------------------
(* SpecMerge: manager._process_chunks feeding merge_transcriptions          *)

InitMerge ==
    /\ provider_out \in Families
    /\ chunk_results = <<>>
    /\ merged = NoResult
    /\ merged_by = "none"
    /\ RateIdle
    /\ SessionIdle
    /\ ServiceIdle

\* manager.py:219-225: one more chunk result comes back and is appended
ProviderReturns ==
    /\ merged_by = "none"
    /\ Len(chunk_results) < MaxChunks
    /\ \E c \in ProviderResults(provider_out) :
          chunk_results' = Append(chunk_results, c)
    /\ UNCHANGED <<provider_out, merged, merged_by, rateVars, sessionVars, serviceVars>>

\* manager.py:232 with audio_utils.AudioProcessor
Merge ==
    /\ merged_by = "none"
    /\ merged' = merge_transcriptions(chunk_results)
    /\ merged_by' = "audio_utils"
    /\ UNCHANGED <<provider_out, chunk_results, rateVars, sessionVars, serviceVars>>

\* the same call with audio_utils_minimal.AudioProcessor
MergeMinimal ==
    /\ merged_by = "none"
    /\ merged' = merge_transcriptions_minimal(chunk_results)
    /\ merged_by' = "audio_utils_minimal"
    /\ UNCHANGED <<provider_out, chunk_results, rateVars, sessionVars, serviceVars>>

NextMerge == ProviderReturns \/ Merge \/ MergeMinimal

SpecMerge == InitMerge /\ [][NextMerge]_vars

-----------------------------------------------------------------------------
(* SpecRate: two workers calling transcribe() on the shared manager         *)

InitRate == MergeIdle /\ RateIdle /\ SessionIdle /\ ServiceIdle

\* the clock advances
Tick ==
    /\ now < MaxTime
    /\ now' = now + 1
    /\ UNCHANGED <<request_times, submissions, wpc, wleft, wsent, wlast,
                   mergeVars, sessionVars, serviceVars>>

\* manager.py:85-119: a worker enters transcribe; the file is valid and the
\* provider available; _check_rate_limit cleans request_times and raises or
\* not; when it does not, the file is prepared into k files to submit.
\* manager.py:154-167: the error is re-raised to the caller (a fallback call
\* would meet the same check first).
CheckRateLimit(w) ==
    /\ wpc[w] = "idle"
    /\ request_times' = IF rate_limit_requests = 0 THEN request_times
                        ELSE CleanRequestTimes(request_times, now)
    /\ IF RateLimitRaises(request_times, now)
       THEN /\ wpc' = [wpc EXCEPT ![w] = "rejected"]
            /\ wleft' = [wleft EXCEPT ![w] = 0]
       ELSE /\ wpc' = [wpc EXCEPT ![w] = "prepared"]
            /\ \E k \in 1..MaxFiles : wleft' = [wleft EXCEPT ![w] = k]
    /\ wsent' = [wsent EXCEPT ![w] = 0]
    /\ UNCHANGED <<now, submissions, wlast, mergeVars, sessionVars, serviceVars>>

\* manager.py:186-194 (_transcribe_single): record the request time, submit
\* the file to the provider.  manager.py:227-229: chunks after the first are
\* submitted at least ChunkDelay after the previous one.
Submit(w) ==
    /\ wpc[w] = "prepared"
    /\ wleft[w] > 0
    /\ Len(submissions) < MaxRequests
    /\ wsent[w] > 0 => now >= wlast[w] + ChunkDelay
    /\ request_times' = Append(request_times, now)
    /\ submissions' = Append(submissions, now)
    /\ wleft' = [wleft EXCEPT ![w] = @ - 1]
    /\ wsent' = [wsent EXCEPT ![w] = @ + 1]
    /\ wlast' = [wlast EXCEPT ![w] = now]
    /\ wpc' = [wpc EXCEPT ![w] = IF wleft[w] = 1 THEN "done" ELSE "prepared"]
    /\ UNCHANGED <<now, mergeVars, sessionVars, serviceVars>>

\* transcribe has returned or raised; the worker takes the next job
Return(w) ==
    /\ wpc[w] \in {"done", "rejected"}
    /\ wpc' = [wpc EXCEPT ![w] = "idle"]
    /\ UNCHANGED <<now, request_times, submissions, wleft, wsent, wlast,
                   mergeVars, sessionVars, serviceVars>>

NextRate ==
    \/ Tick
    \/ \E w \in Workers : CheckRateLimit(w)
    \/ \E w \in Workers : Submit(w)
    \/ \E w \in Workers : Return(w)

SpecRate == InitRate /\ [][NextRate]_vars

-----------------------------------------------------------------------------
(* Properties of merge_transcriptions                                       *)

MergedByFull == merged_by = "audio_utils" /\ Len(chunk_results) >= 1

RECURSIVE SumDurations(_)
SumDurations(chunks) ==
    IF chunks = <<>> THEN 0
    ELSE chunks[1].duration + SumDurations(Tail(chunks))

\* sum of the durations of the chunks before chunk number i
Offset(chunks, i) == SumDurations(SubSeq(chunks, 1, i - 1))

\* C5: the duration of the result of merge_transcriptions (audio_utils) over
\* one or more chunk results is the sum of the durations of those chunks.
C5_DurationIsSum ==
    MergedByFull => merged.duration = SumDurations(chunk_results)

C5_Witness ==
    /\ MergedByFull
    /\ Len(chunk_results) = 3
    /\ chunk_results[1].duration # chunk_results[2].duration
    /\ merged.duration = SumDurations(chunk_results)

SegmentsOrdered(segments) ==
    \A k \in 1..(Len(segments) - 1) : segments[k].start <= segments[k + 1].start

C7_SingleChunkUnchanged ==
    (merged_by # "none" /\ Len(chunk_results) = 1) => merged = chunk_results[1]

C7_Witness ==
    /\ merged_by = "audio_utils"
    /\ Len(chunk_results) = 1
    /\ chunk_results[1].segments # <<>>
    /\ merged = chunk_results[1]

\* the segments of chunks i..n, each rebased by the durations before its chunk
RECURSIVE RebasedFrom(_, _)
RebasedFrom(chunks, i) ==
    IF i > Len(chunks) THEN <<>>
    ELSE [k \in 1..Len(chunks[i].segments) |->
            [id |-> chunks[i].segments[k].id,
             start |-> chunks[i].segments[k].start + Offset(chunks, i),
             end |-> chunks[i].segments[k].end + Offset(chunks, i)]]
         \o RebasedFrom(chunks, i + 1)

\* C8: the merged segment list is the segments of chunk 0, unshifted,
\* followed in chunk order by those of every later chunk i, in their order,
\* start and end both increased by the sum of the durations of chunks 0..i-1.
C8_SegmentsRebased ==
    MergedByFull => Get(merged, "segments", <<>>) = RebasedFrom(chunk_results, 1)

C8_Witness ==
    /\ MergedByFull
    /\ Len(chunk_results) = 3
    /\ chunk_results[3].segments # <<>>
    /\ chunk_results[1].duration + chunk_results[2].duration = 3
    /\ merged.segments[Len(merged.segments)].end
         = chunk_results[3].segments[Len(chunk_results[3].segments)].end + 3

\* the chunk's first five words are the last five words of the previous text
RepeatsTail(prev_text, text) ==
    /\ Len(Split(text)) >= 5
    /\ Len(Split(prev_text)) >= 5
    /\ FirstN(Split(text), 5) = LastN(Split(prev_text), 5)

WithoutFirstFive(text) == JoinWords(DropN(Split(text), 5))

\* the texts concatenated when every chunk that repeats the previous tail
\* and has more than min_words words loses its first five words
DedupedTexts(chunks, min_words) ==
    [i \in 1..Len(chunks) |->
        IF i > 1 /\ Len(Split(chunks[i].text)) > min_words
                 /\ RepeatsTail(chunks[i - 1].text, chunks[i].text)
        THEN WithoutFirstFive(chunks[i].text)
        ELSE chunks[i].text]

\* C9 (as amended): a chunk after the first that has more than ten words and
\* whose first five words are the last five words of the previous chunk's
\* text is appended without those five words; every other chunk, those of
\* ten words or fewer included, is appended unchanged.
C9_DedupOverTenWords ==
    (MergedByFull /\ Len(chunk_results) >= 2)
    => merged.text = JoinTexts(DedupedTexts(chunk_results, 10))

\* C9 (as claimed): the same for a chunk of any length.
C9_DedupAnyLength ==
    (MergedByFull /\ Len(chunk_results) >= 2)
    => merged.text = JoinTexts(DedupedTexts(chunk_results, 0))

C9_Witness ==
    /\ MergedByFull
    /\ Len(chunk_results) = 3
    /\ \A i \in 2..3 : /\ Len(Split(chunk_results[i].text)) > 10
                       /\ RepeatsTail(chunk_results[i - 1].text, chunk_results[i].text)
    /\ WordCount(merged.text) = WordCount(chunk_results[1].text) + 6 + 6

-----------------------------------------------------------------------------
(* Properties of the rate limiter                                           *)

\* how many of the given times lie in the window (t - window, t]
InWindow(times, t) ==
    Cardinality({k \in 1..Len(times) :
                   times[k] > t - rate_limit_window /\ times[k] <= t})

\* C3: a transcribe call that starts when rate_limit_requests requests are
\* recorded within the current window is rejected, and nothing is submitted
\* to the provider by it.
C3_RejectsAtLimit ==
    [][\A w \in Workers :
         (wpc[w] = "idle" /\ wpc'[w] # "idle"
            /\ InWindow(request_times, now) >= rate_limit_requests)
         => (wpc'[w] = "rejected" /\ wsent'[w] = 0 /\ wleft'[w] = 0
               /\ submissions' = submissions)]_vars

C3_Witness ==
    \E w \in Workers :
        /\ wpc[w] = "rejected"
        /\ wsent[w] = 0
        /\ InWindow(request_times, now) = rate_limit_requests

\* C4: in every window of rate_limit_window seconds the provider receives at
\* most rate_limit_requests submissions.
C4_SubmissionsBounded ==
    \A t \in 0..MaxTime : InWindow(submissions, t) <= rate_limit_requests

-----------------------------------------------------------------------------
(* SpecSession: upload request, background job and claim of one session     *)

InitSession == MergeIdle /\ RateIdle /\ SessionIdle /\ ServiceIdle

\* a database or provider call either returns or raises
Outcomes == {"ok", "raises"}
Fault(o) == o = "raises" /\ faults < MaxFaults
Counted(o) == faults' = IF o = "raises" THEN faults + 1 ELSE faults

\* anonymous_service.py:116-118, 809-872: the session row is inserted with
\* status uploaded; a failure ends the request with 500
ReqCreateSession ==
    /\ req_pc = "create_session"
    /\ \E o \in Outcomes :
          /\ o = "ok" \/ Fault(o)
          /\ Counted(o)
          /\ sess_status' = IF o = "ok" THEN "uploaded" ELSE sess_status
          /\ req_pc' = IF o = "ok" THEN "create_project" ELSE "failed"
    /\ UNCHANGED <<sess_project, sess_transcription, sess_claimed_by, sess_expired,
                   proj_status, transcription_row, job_pc, job_has_session_id,
                   job_result, claim_pc, mergeVars, rateVars, serviceVars>>

\* anonymous_service.py:121-128, 874-944: the project row is inserted with
\* status uploading
ReqCreateProject ==
    /\ req_pc = "create_project"
    /\ \E o \in Outcomes :
          /\ o = "ok" \/ Fault(o)
          /\ Counted(o)
          /\ proj_status' = IF o = "ok" THEN "uploading" ELSE proj_status
          /\ req_pc' = IF o = "ok" THEN "link_project" ELSE "failed"
    /\ UNCHANGED <<sess_status, sess_project, sess_transcription, sess_claimed_by,
                   sess_expired, transcription_row, job_pc, job_has_session_id,
                   job_result, claim_pc, mergeVars, rateVars, serviceVars>>

\* anonymous_service.py:131, 946-993: the session gets its project_id
ReqLinkProject ==
    /\ req_pc = "link_project"
    /\ \E o \in Outcomes :
          /\ o = "ok" \/ Fault(o)
          /\ Counted(o)
          /\ sess_project' = (o = "ok")
          /\ req_pc' = IF o = "ok" THEN "submit_job" ELSE "failed"
    /\ UNCHANGED <<sess_status, sess_transcription, sess_claimed_by, sess_expired,
                   proj_status, transcription_row, job_pc, job_has_session_id,
                   job_result, claim_pc, mergeVars, rateVars, serviceVars>>

\* anonymous_service.py:1028-1033, background_tasks.py:325-363: the job is
\* handed to the executor
ReqSubmitJob ==
    /\ req_pc = "submit_job"
    /\ job_pc = "not_submitted"
    /\ job_pc' = "select_session"
    /\ req_pc' = "project_processing"
    /\ UNCHANGED <<sess_status, sess_project, sess_transcription, sess_claimed_by,
                   sess_expired, proj_status, transcription_row,
                   job_has_session_id, job_result, claim_pc, faults,
                   mergeVars, rateVars, serviceVars>>

\* anonymous_service.py:1036-1038, 1067-1101: the request marks the project
\* processing; a failure is logged and swallowed
ReqProjectProcessing ==
    /\ req_pc = "project_processing"
    /\ \E o \in Outcomes :
          /\ o = "ok" \/ Fault(o)
          /\ Counted(o)
          /\ proj_status' = IF o = "ok" THEN "processing" ELSE proj_status
    /\ req_pc' = "track_usage"
    /\ UNCHANGED <<sess_status, sess_project, sess_transcription, sess_claimed_by,
                   sess_expired, transcription_row, job_pc, job_has_session_id,
                   job_result, claim_pc, mergeVars, rateVars, serviceVars>>

\* anonymous_service.py:143-162, 1103-1145: usage is tracked, best effort, and
\* the response is returned
ReqTrackUsage ==
    /\ req_pc = "track_usage"
    /\ \E o \in Outcomes : (o = "ok" \/ Fault(o)) /\ Counted(o)
    /\ req_pc' = "done"
    /\ UNCHANGED <<sess_status, sess_project, sess_transcription, sess_claimed_by,
                   sess_expired, proj_status, transcription_row, job_pc,
                   job_has_session_id, job_result, claim_pc, mergeVars, rateVars, serviceVars>>

-----------------------------------------------------------------------------
(* BackgroundTaskService.process_anonymous_transcription                    *)

\* background_tasks.py:156-164: read the session by its token; from here on
\* session_id is a local of the job
JobSelectSession ==
    /\ job_pc = "select_session"
    /\ \E o \in Outcomes :
          /\ o = "ok" \/ Fault(o)
          /\ Counted(o)
          /\ job_has_session_id' = IF o = "ok" THEN TRUE ELSE job_has_session_id
          /\ job_pc' = IF o = "ok" THEN "session_processing" ELSE "handler_lookup"
    /\ UNCHANGED <<sess_status, sess_project, sess_transcription,
                   sess_claimed_by, sess_expired, proj_status,
                   transcription_row, req_pc, job_result, claim_pc,
                   mergeVars, rateVars, serviceVars>>

\* background_tasks.py:167-170
JobSessionProcessing ==
    /\ job_pc = "session_processing"
    /\ \E o \in Outcomes :
          /\ o = "ok" \/ Fault(o)
          /\ Counted(o)
          /\ sess_status' = IF o = "ok" THEN "processing" ELSE sess_status
          /\ job_pc' = IF o = "ok" THEN "project_processing" ELSE "handler_session"
    /\ UNCHANGED <<sess_project, sess_transcription, sess_claimed_by,
                   sess_expired, proj_status, transcription_row, req_pc,
                   job_has_session_id, job_result, claim_pc, mergeVars,
                   rateVars, serviceVars>>

\* background_tasks.py:172-176
JobProjectProcessing ==
    /\ job_pc = "project_processing"
    /\ \E o \in Outcomes :
          /\ o = "ok" \/ Fault(o)
          /\ Counted(o)
          /\ proj_status' = IF o = "ok" THEN "processing" ELSE proj_status
          /\ job_pc' = IF o = "ok" THEN "transcribe" ELSE "handler_session"
    /\ UNCHANGED <<sess_status, sess_project, sess_transcription,
                   sess_claimed_by, sess_expired, transcription_row, req_pc,
                   job_has_session_id, job_result, claim_pc, mergeVars,
                   rateVars, serviceVars>>

\* background_tasks.py:179-183: transcribe_from_supabase returns or raises
JobTranscribe ==
    /\ job_pc = "transcribe"
    /\ \E o \in Outcomes :
          /\ o = "ok" \/ Fault(o)
          /\ Counted(o)
          /\ job_pc' = IF o = "ok" THEN "insert_transcription" ELSE "handler_session"
    /\ UNCHANGED <<sess_status, sess_project, sess_transcription,
                   sess_claimed_by, sess_expired, proj_status,
                   transcription_row, req_pc, job_has_session_id, job_result,
                   claim_pc, mergeVars, rateVars, serviceVars>>

\* background_tasks.py:205-212: the transcription row is inserted; an insert
\* that raises or returns no data fails the job
JobInsertTranscription ==
    /\ job_pc = "insert_transcription"
    /\ \E o \in Outcomes :
          /\ o = "ok" \/ Fault(o)
          /\ Counted(o)
          /\ transcription_row' = IF o = "ok" THEN TRUE ELSE transcription_row
          /\ job_pc' = IF o = "ok" THEN "session_completed" ELSE "handler_session"
    /\ UNCHANGED <<sess_status, sess_project, sess_transcription,
                   sess_claimed_by, sess_expired, proj_status, req_pc,
                   job_has_session_id, job_result, claim_pc, mergeVars,
                   rateVars, serviceVars>>

\* background_tasks.py:215-219
JobSessionCompleted ==
    /\ job_pc = "session_completed"
    /\ \E o \in Outcomes :
          /\ o = "ok" \/ Fault(o)
          /\ Counted(o)
          /\ sess_status' = IF o = "ok" THEN "completed" ELSE sess_status
          /\ sess_transcription' = IF o = "ok" THEN TRUE ELSE sess_transcription
          /\ job_pc' = IF o = "ok" THEN "project_completed" ELSE "handler_session"
    /\ UNCHANGED <<sess_project, sess_claimed_by, sess_expired, proj_status,
                   transcription_row, req_pc, job_has_session_id, job_result,
                   claim_pc, mergeVars, rateVars, serviceVars>>

\* background_tasks.py:222-243: the last write of the try block, then the
\* success result
JobProjectCompleted ==
    /\ job_pc = "project_completed"
    /\ \E o \in Outcomes :
          /\ o = "ok" \/ Fault(o)
          /\ Counted(o)
          /\ proj_status' = IF o = "ok" THEN "completed" ELSE proj_status
          /\ job_pc' = IF o = "ok" THEN "returned" ELSE "handler_session"
          /\ job_result' = IF o = "ok" THEN "success" ELSE job_result
    /\ UNCHANGED <<sess_status, sess_project, sess_transcription,
                   sess_claimed_by, sess_expired, transcription_row, req_pc,
                   job_has_session_id, claim_pc, mergeVars, rateVars, serviceVars>>

\* background_tasks.py:257-264: the handler looks the session id up when the
\* first read had failed; a failure here is logged (278-283) and the job
\* returns its failure result
HandlerLookup ==
    /\ job_pc = "handler_lookup"
    /\ \E o \in Outcomes :
          /\ o = "ok" \/ Fault(o)
          /\ Counted(o)
          /\ job_has_session_id' = IF o = "ok" THEN TRUE ELSE job_has_session_id
          /\ job_pc' = IF o = "ok" THEN "handler_session" ELSE "returned"
          /\ job_result' = IF o = "ok" THEN job_result ELSE "failure"
    /\ UNCHANGED <<sess_status, sess_project, sess_transcription,
                   sess_claimed_by, sess_expired, proj_status,
                   transcription_row, req_pc, claim_pc, mergeVars, rateVars, serviceVars>>

\* background_tasks.py:266-270: the session is marked failed; when the write
\* raises, the project write is skipped (278-288)
HandlerSessionFailed ==
    /\ job_pc = "handler_session"
    /\ \E o \in Outcomes :
          /\ o = "ok" \/ Fault(o)
          /\ Counted(o)
          /\ sess_status' = IF o = "ok" THEN "failed" ELSE sess_status
          /\ job_pc' = IF o = "ok" THEN "handler_project" ELSE "returned"
          /\ job_result' = IF o = "ok" THEN job_result ELSE "failure"
    /\ UNCHANGED <<sess_project, sess_transcription, sess_claimed_by,
                   sess_expired, proj_status, transcription_row, req_pc,
                   job_has_session_id, claim_pc, mergeVars, rateVars, serviceVars>>

\* background_tasks.py:272-288: the project is marked failed and the failure
\* result returned
HandlerProjectFailed ==
    /\ job_pc = "handler_project"
    /\ \E o \in Outcomes :
          /\ o = "ok" \/ Fault(o)
          /\ Counted(o)
          /\ proj_status' = IF o = "ok" THEN "failed" ELSE proj_status
          /\ job_pc' = IF o = "ok" THEN "returned" ELSE "returned"
          /\ job_result' = IF o = "ok" THEN "failure" ELSE "failure"
    /\ UNCHANGED <<sess_status, sess_project, sess_transcription,
                   sess_claimed_by, sess_expired, transcription_row, req_pc,
                   job_has_session_id, claim_pc, mergeVars, rateVars, serviceVars>>

-----------------------------------------------------------------------------
(* AnonymousService.claim_session_for_user                                  *)

\* the claim_anonymous_session database function: what it answers for a
\* session in the given state; first without the test for completed
ClaimFunction_any(status, expired) ==
    IF status = "none" THEN "Session not found"
    ELSE IF expired THEN "Session expired"
    ELSE IF status = "claimed" THEN "Session already claimed"
    ELSE "success"

\* a session is claimed only from completed; the errors are those that
\* claim_session_for_user tells apart (anonymous_service.py:442-468)
ClaimFunction(status, expired) ==
    IF status = "none" THEN "Session not found"
    ELSE IF expired THEN "Session expired"
    ELSE IF status = "claimed" THEN "Session already claimed"
    ELSE IF status # "completed" THEN "Session not ready"
    ELSE "success"

\* anonymous_service.py:1353-1393: the result of _claim_session_atomic; an
\* rpc call that raises becomes a failure result
ClaimAtomic(status, expired, o) ==
    IF o = "raises" THEN "Claim operation failed"
    ELSE ClaimFunction(status, expired)

\* anonymous_service.py:440-504: the HTTP status answered for a claim result
ClaimResponse(result) ==
    IF result # "success"
    THEN IF result = "Session not found" THEN "404"
         ELSE IF result = "Session expired" THEN "410"
         ELSE IF result = "Session already claimed" THEN "409"
         ELSE "400"
    ELSE "200"

\* anonymous_service.py:434-504: user u claims the session
ClaimSession(u) ==
    /\ claim_pc[u] = "idle"
    /\ \E o \in Outcomes :
          /\ o = "ok" \/ Fault(o)
          /\ Counted(o)
          /\ LET result == ClaimAtomic(sess_status, sess_expired, o) IN
             /\ sess_status' = IF result = "success" THEN "claimed" ELSE sess_status
             /\ sess_claimed_by' = IF result = "success" THEN u ELSE sess_claimed_by
             /\ claim_pc' = [claim_pc EXCEPT ![u] = ClaimResponse(result)]
    /\ UNCHANGED <<sess_project, sess_transcription, sess_expired,
                   proj_status, transcription_row, req_pc, job_pc,
                   job_has_session_id, job_result, mergeVars, rateVars, serviceVars>>

\* the response has been delivered; the user may ask again
ClaimAnswered(u) ==
    /\ claim_pc[u] # "idle"
    /\ claim_pc' = [claim_pc EXCEPT ![u] = "idle"]
    /\ UNCHANGED <<sess_status, sess_project, sess_transcription,
                   sess_claimed_by, sess_expired, proj_status,
                   transcription_row, req_pc, job_pc, job_has_session_id,
                   job_result, faults, mergeVars, rateVars, serviceVars>>

\* anonymous_service.py:586-593, 843: seven days after creation expires_at
\* lies in the past
Expire ==
    /\ sess_status # "none"
    /\ ~sess_expired
    /\ sess_expired' = TRUE
    /\ UNCHANGED <<sess_status, sess_project, sess_transcription,
                   sess_claimed_by, proj_status, transcription_row, req_pc,
                   job_pc, job_has_session_id, job_result, claim_pc, faults,
                   mergeVars, rateVars, serviceVars>>

NextSession ==
    \/ ReqCreateSession \/ ReqCreateProject \/ ReqLinkProject \/ ReqSubmitJob
    \/ ReqProjectProcessing \/ ReqTrackUsage
    \/ JobSelectSession \/ JobSessionProcessing \/ JobProjectProcessing
    \/ JobTranscribe \/ JobInsertTranscription \/ JobSessionCompleted
    \/ JobProjectCompleted
    \/ HandlerLookup \/ HandlerSessionFailed \/ HandlerProjectFailed
    \/ \E u \in Users : ClaimSession(u)
    \/ \E u \in Users : ClaimAnswered(u)
    \/ Expire

SpecSession == InitSession /\ [][NextSession]_vars

-----------------------------------------------------------------------------
(* Properties of the session status                                         *)

StatusPath ==
    {<<"none", "uploaded">>, <<"uploaded", "processing">>,
     <<"processing", "completed">>, <<"processing", "failed">>,
     <<"completed", "claimed">>}

\* C1: the session status changes only along uploaded -> processing ->
\* completed or failed (created as uploaded; claimed from completed).
C1_StatusPathOnly ==
    [][sess_status' # sess_status => <<sess_status, sess_status'>> \in StatusPath]_vars

\* C2: a session becomes claimed, and a claim is answered as a success, only
\* when the session was completed and not expired immediately before; a claim
\* of a session in any other state changes neither status nor claimant.
C2_ClaimedOnlyFromCompleted ==
    [][/\ (sess_status' = "claimed" /\ sess_status # "claimed")
            => (sess_status = "completed" /\ ~sess_expired)
       /\ \A u \in Users :
            (claim_pc[u] = "idle" /\ claim_pc'[u] = "200")
            => (sess_status = "completed" /\ ~sess_expired
                  /\ sess_status' = "claimed" /\ sess_claimed_by' = u)
       /\ sess_claimed_by' # sess_claimed_by
            => (sess_status = "completed" /\ sess_status' = "claimed")]_vars

C2_Witness ==
    /\ sess_status = "claimed"
    /\ sess_claimed_by = "u1"
    /\ claim_pc["u1"] = "200"
    /\ claim_pc["u2"] = "409"

-----------------------------------------------------------------------------
(* SpecTranscribe: one call of TranscriptionManager.transcribe              *)

InitTranscribe ==
    /\ MergeIdle /\ RateIdle /\ SessionIdle /\ LaterIdle /\ ExecutorIdle /\ RequestIdle
    /\ providers \in SUBSET Providers
    /\ primary_provider \in Providers
    /\ file_valid \in BOOLEAN
    /\ \E size \in 0..MaxSizeMb, rate \in Bitrates :
          \E compressed \in 0..size :
             file_info = [size_mb |-> size, bitrate |-> rate,
                          compressed_size_mb |-> compressed]
    /\ t_requested = NoProvider
    /\ t_attempts = <<>>
    /\ t_pc = "call"
    /\ t_error = NoError
    /\ prepared = NoResult
    /\ temp_files = {}

\* manager.py:85-152: transcribe is entered with provider = t_requested and
\* runs its try block to the return or to the first exception
TranscribeCall ==
    /\ t_pc = "call"
    /\ \E event \in TranscribeEvents :
          LET try == TranscribeTry(t_requested, primary_provider, providers,
                                   file_valid, event)
              reached_prepare == try.failed_at \in {"none", "provider"}
          IN /\ t_attempts' = Append(t_attempts, try)
             /\ t_error' = try.error
             /\ t_pc' = IF try.failed_at = "none" THEN "returned" ELSE "except"
             /\ prepared' = IF ~reached_prepare THEN prepared
                            ELSE IF event = "no_ffmpeg" THEN DirectFile
                            ELSE prepare_file_for_transcription(file_info)
             \* manager.py:132, 142-143: the files of the prepared list are
             \* deleted only after the provider calls returned
             /\ \E left \in PrepareLeftovers(file_info) :
                   temp_files' =
                      IF try.failed_at = "prepare" THEN temp_files \cup left
                      ELSE IF try.failed_at = "provider"
                           THEN temp_files \cup TempFilesOf(prepared'.files)
                      ELSE temp_files
    /\ UNCHANGED <<providers, primary_provider, file_valid, file_info,
                   t_requested, mergeVars, laterVars, rateVars, sessionVars,
                   executorVars, requestVars>>

\* manager.py:154-167: the handler reads selected_provider (unbound when
\* validate_file raised), calls transcribe again with the OpenAI provider or
\* re-raises
TranscribeExcept ==
    /\ t_pc = "except"
    /\ LET last == t_attempts[Len(t_attempts)] IN
       IF last.selected = Unbound
       THEN /\ t_pc' = "raised"
            /\ t_error' = "UnboundLocalError"
            /\ UNCHANGED t_requested
       ELSE IF FallbackAvailable(last.selected, providers)
            THEN /\ t_pc' = "call"
                 /\ t_requested' = "openai"
                 /\ t_error' = NoError
            ELSE /\ t_pc' = "raised"
                 /\ UNCHANGED <<t_requested, t_error>>
    /\ UNCHANGED <<providers, primary_provider, file_valid, file_info,
                   t_attempts, prepared, temp_files, mergeVars, laterVars,
                   rateVars, sessionVars, executorVars, requestVars>>

NextTranscribe == TranscribeCall \/ TranscribeExcept

SpecTranscribe == InitTranscribe /\ [][NextTranscribe]_vars

-----------------------------------------------------------------------------
(* Properties of transcribe and of the file preparation                     *)

TranscribeEnded == t_pc \in {"returned", "raised"}

\* C11: transcribe tries the selected primary provider; when that attempt
\* fails and the fallback provider is configured, it is retried exactly once
\* with the fallback; a second attempt is made only after a failed first one,
\* never a third, and a failure of the fallback attempt is what the caller
\* gets.
C11_OneFallbackHop ==
    /\ Len(t_attempts) <= 2
    /\ Len(t_attempts) = 2
         => (t_attempts[1].failed_at # "none" /\ t_attempts[2].selected = "openai")
    /\ (/\ TranscribeEnded
        /\ t_attempts[1].selected = "groq"
        /\ t_attempts[1].failed_at # "none"
        /\ "openai" \in providers)
         => Len(t_attempts) = 2
    /\ (t_pc = "raised" /\ Len(t_attempts) = 2)
         => (t_attempts[2].failed_at # "none" /\ t_error = t_attempts[2].error)

C11_Witness ==
    /\ t_pc = "raised"
    /\ Len(t_attempts) = 2
    /\ t_attempts[1].selected = "groq"
    /\ t_attempts[1].failed_at = "rate_limit"
    /\ t_attempts[2].selected = "openai"
    /\ t_attempts[2].failed_at = "provider"
    /\ t_error = "provider_error"

\* C12: prepare_file_for_transcription returns the original file, not to be
\* merged, when the size is within the ceiling; else, for a bitrate above
\* 64 kbps whose compressed copy fits, the compressed file, not to be merged;
\* in every other case chunks, to be merged.  needs_merging is true exactly
\* when the file was split.
C12_PrepareTreatment ==
    (prepared # NoResult /\ "direct" \notin DOMAIN prepared) =>
       LET fits == file_info.size_mb <= max_file_size_mb
           high == file_info.bitrate > 64000
           compressed_fits == file_info.compressed_size_mb <= max_file_size_mb
           chunks == {"chunks_of_compressed", "chunks_of_original"}
       IN /\ fits => prepared = [files |-> "original", needs_merging |-> FALSE]
          /\ (~fits /\ high /\ compressed_fits)
                => prepared = [files |-> "compressed", needs_merging |-> FALSE]
          /\ (~fits /\ ~(high /\ compressed_fits))
                => (prepared.files \in chunks /\ prepared.needs_merging)
          /\ prepared.needs_merging <=> prepared.files \in chunks

C12_Witness ==
    /\ t_pc = "returned"
    /\ file_info.bitrate = 64000
    /\ file_info.size_mb > max_file_size_mb
    /\ file_info.compressed_size_mb <= max_file_size_mb
    /\ prepared = [files |-> "chunks_of_original", needs_merging |-> TRUE]

-----------------------------------------------------------------------------
(* SpecExecutor: tasks submitted to BackgroundTaskService's executor, each  *)
(* running process_transcription on a worker thread                         *)

InitExecutor ==
    /\ MergeIdle /\ RateIdle /\ SessionIdle /\ LaterIdle
    /\ TranscribeIdle /\ ExecutorIdle /\ RequestIdle

ExFault(o) == o = "raises" /\ ex_faults < MaxFaults
ExCounted(o) == ex_faults' = IF o = "raises" THEN ex_faults + 1 ELSE ex_faults

\* background_tasks.py:309-323 (and 344-363 for an anonymous upload):
\* executor.submit puts the work item on the executor's queue
SubmitTask(t) ==
    /\ task_pc[t] = "not_submitted"
    /\ ex_queue' = Append(ex_queue, t)
    /\ ex_held' = IF FreeWorkers(ex_worker) = {} THEN ex_held \cup {t}
                  ELSE ex_held
    /\ task_pc' = [task_pc EXCEPT ![t] = "queued"]
    /\ UNCHANGED <<ex_worker, task_project, ex_faults, mergeVars, laterVars, rateVars,
                   sessionVars, transcribeVars, requestVars>>

\* background_tasks.py:23: a worker thread that runs no task takes the oldest
\* work item and starts loop.run_until_complete(process_transcription(...))
WorkerTakes(w) ==
    /\ w \in FreeWorkers(ex_worker)
    /\ ex_queue # <<>>
    /\ ex_worker' = [ex_worker EXCEPT ![w] = Head(ex_queue)]
    /\ ex_queue' = Tail(ex_queue)
    /\ task_pc' = [task_pc EXCEPT ![Head(ex_queue)] = "project_processing"]
    /\ UNCHANGED <<ex_held, task_project, ex_faults, mergeVars, laterVars, rateVars,
                   sessionVars, transcribeVars, requestVars>>

\* background_tasks.py:51-55
TaskProjectProcessing(w) ==
    /\ ex_worker[w] # 0
    /\ task_pc[ex_worker[w]] = "project_processing"
    /\ \E o \in Outcomes :
          /\ o = "ok" \/ ExFault(o)
          /\ ExCounted(o)
          /\ task_project' = IF o = "ok"
                             THEN [task_project EXCEPT ![ex_worker[w]] = "processing"]
                             ELSE task_project
          /\ task_pc' = [task_pc EXCEPT ![ex_worker[w]] =
                            IF o = "ok" THEN "transcribe" ELSE "handler"]
    /\ UNCHANGED <<ex_queue, ex_worker, ex_held, mergeVars, laterVars, rateVars,
                   sessionVars, transcribeVars, requestVars>>

\* background_tasks.py:58-62
TaskTranscribe(w) ==
    /\ ex_worker[w] # 0
    /\ task_pc[ex_worker[w]] = "transcribe"
    /\ \E o \in Outcomes :
          /\ o = "ok" \/ ExFault(o)
          /\ ExCounted(o)
          /\ task_pc' = [task_pc EXCEPT ![ex_worker[w]] =
                            IF o = "ok" THEN "insert_transcription" ELSE "handler"]
    /\ UNCHANGED <<ex_queue, ex_worker, ex_held, task_project, mergeVars, laterVars,
                   rateVars, sessionVars, transcribeVars, requestVars>>

\* background_tasks.py:84-88
TaskInsertTranscription(w) ==
    /\ ex_worker[w] # 0
    /\ task_pc[ex_worker[w]] = "insert_transcription"
    /\ \E o \in Outcomes :
          /\ o = "ok" \/ ExFault(o)
          /\ ExCounted(o)
          /\ task_pc' = [task_pc EXCEPT ![ex_worker[w]] =
                            IF o = "ok" THEN "project_completed" ELSE "handler"]
    /\ UNCHANGED <<ex_queue, ex_worker, ex_held, task_project, mergeVars, laterVars,
                   rateVars, sessionVars, transcribeVars, requestVars>>

\* background_tasks.py:91-106: the last write of the try block, then the
\* success result; the worker thread is free again
TaskProjectCompleted(w) ==
    /\ ex_worker[w] # 0
    /\ task_pc[ex_worker[w]] = "project_completed"
    /\ \E o \in Outcomes :
          /\ o = "ok" \/ ExFault(o)
          /\ ExCounted(o)
          /\ task_project' = IF o = "ok"
                             THEN [task_project EXCEPT ![ex_worker[w]] = "completed"]
                             ELSE task_project
          /\ task_pc' = [task_pc EXCEPT ![ex_worker[w]] =
                            IF o = "ok" THEN "success" ELSE "handler"]
          /\ ex_worker' = IF o = "ok" THEN [ex_worker EXCEPT ![w] = 0]
                          ELSE ex_worker
    /\ UNCHANGED <<ex_queue, ex_held, mergeVars, laterVars, rateVars, sessionVars,
                   transcribeVars, requestVars>>

\* background_tasks.py:108-122: the handler marks the project failed and
\* returns the failure result; the update is not inside a try of its own, so
\* an update that raises leaves process_transcription as an exception
TaskHandler(w) ==
    /\ ex_worker[w] # 0
    /\ task_pc[ex_worker[w]] = "handler"
    /\ \E o \in Outcomes :
          /\ o = "ok" \/ ExFault(o)
          /\ ExCounted(o)
          /\ task_project' = IF o = "ok"
                             THEN [task_project EXCEPT ![ex_worker[w]] = "failed"]
                             ELSE task_project
          /\ task_pc' = [task_pc EXCEPT ![ex_worker[w]] =
                            IF o = "ok" THEN "failure" ELSE "raised"]
    /\ ex_worker' = [ex_worker EXCEPT ![w] = 0]
    /\ UNCHANGED <<ex_queue, ex_held, mergeVars, laterVars, rateVars, sessionVars,
                   transcribeVars, requestVars>>

NextExecutor ==
    \/ \E t \in Tasks : SubmitTask(t)
    \/ \E w \in Workers : WorkerTakes(w)
    \/ \E w \in Workers : TaskProjectProcessing(w)
    \/ \E w \in Workers : TaskTranscribe(w)
    \/ \E w \in Workers : TaskInsertTranscription(w)
    \/ \E w \in Workers : TaskProjectCompleted(w)
    \/ \E w \in Workers : TaskHandler(w)

SpecExecutor == InitExecutor /\ [][NextExecutor]_vars

-----------------------------------------------------------------------------
(* Properties of the executor and of its tasks                              *)

RunningTasks(pc) == {t \in Tasks : pc[t] \in TaskRunning}
QueuedTasks(queue) == {queue[i] : i \in DOMAIN queue}

\* C13: at most two transcription jobs execute at the same time; a job
\* submitted while two are running stays in the queue, and leaves it only to
\* be run by a worker that has become free.
C13_AtMostTwoRunning ==
    [][/\ Cardinality(RunningTasks(task_pc')) <= 2
       /\ \A t \in Tasks :
            /\ task_pc'[t] = "queued" <=> t \in QueuedTasks(ex_queue')
            /\ task_pc[t] = "queued"
                 => task_pc'[t] \in {"queued", "project_processing"}
            /\ (task_pc[t] = "queued" /\ task_pc'[t] # "queued")
                 => (/\ Cardinality(RunningTasks(task_pc)) < 2
                     /\ \E w \in Workers :
                           ex_worker[w] = 0 /\ ex_worker'[w] = t)]_vars

C13_Witness ==
    /\ 3 \in ex_held
    /\ task_pc[3] = "transcribe"
    /\ task_pc[1] = "success"
    /\ task_pc[2] = "insert_transcription"

\* C14: a background job that fails is not run again and ends by writing
\* status failed to its project; when that write fails too the job still
\* returns its failure result, it does not raise.
C14_FailureIsReturned ==
    \A t \in Tasks :
       /\ task_pc[t] # "raised"
       /\ task_pc[t] = "failure" => task_project[t] = "failed"

-----------------------------------------------------------------------------
(* Properties of the session and project status together                    *)

\* C15: once the upload request has returned and the job has finished, with
\* no call having raised, the session and its project carry the same status:
\* both completed (the session possibly claimed since) or both failed.
C15_SessionMirrorsProject ==
    (req_pc = "done" /\ job_pc = "returned" /\ faults = 0)
       => \/ sess_status \in {"completed", "claimed"} /\ proj_status = "completed"
          \/ sess_status = "failed" /\ proj_status = "failed"

-----------------------------------------------------------------------------
(* SpecRequest: one HTTP request to an anonymous endpoint                   *)

\* the status codes of ClaimResponse as numbers
StatusCode ==
    [code \in {"200", "400", "404", "409", "410"} |->
        IF code = "200" THEN 200
        ELSE IF code = "400" THEN 400
        ELSE IF code = "404" THEN 404
        ELSE IF code = "409" THEN 409
        ELSE 410]

\* anonymous_service.py:434-523: the atomic claim, then the response built
\* from its result; an exception while building it becomes a 500
claim_session_for_user(row, age, rpc, build) ==
    LET result == ClaimAtomic(row.status, Expired(age), rpc) IN
    IF result # "success"
    THEN Http(StatusCode[ClaimResponse(result)], result)
    ELSE IF build = "raises" THEN Http(500, "claim_failed")
    ELSE Result([success |-> TRUE])

\* the session row after the claim_anonymous_session call
ClaimedRow(row, age, rpc) ==
    IF ClaimAtomic(row.status, Expired(age), rpc) = "success"
    THEN [row EXCEPT !.status = "claimed"]
    ELSE row

\* anonymous_service.py:84-143: the steps of create_anonymous_upload that can
\* end the request, in order
UploadSteps_storage_first ==
    <<"rate_limit", "storage", "size", "extension", "session", "project",
      "link", "job">>

UploadSteps ==
    <<"rate_limit", "size", "extension", "storage", "session", "project",
      "link", "job">>

StepIndex(step) == CHOOSE i \in DOMAIN UploadSteps : UploadSteps[i] = step

\* the step was run and did not raise
Passed(step, fail_at) ==
    fail_at = "none" \/ StepIndex(step) < StepIndex(fail_at)

\* anonymous_service.py:84-180
create_anonymous_upload(fail_at) ==
    IF fail_at = "none" THEN Result([status |-> "processing"])
    ELSE IF fail_at = "rate_limit" THEN Http(429, "rate_limit_exceeded")
    ELSE IF fail_at = "size" THEN Http(413, "file_too_large")
    ELSE IF fail_at = "extension" THEN Http(400, "invalid_file_type")
    ELSE Http(500, "upload_failed")

\* the objects an invocation of create_anonymous_upload adds; the usage row
\* is written last, and a failure of that write is swallowed (143, 1139-1145)
UploadCreates(made, fail_at, track) ==
    [storage |-> made.storage + IF Passed("storage", fail_at) THEN 1 ELSE 0,
     session |-> made.session + IF Passed("session", fail_at) THEN 1 ELSE 0,
     project |-> made.project + IF Passed("project", fail_at) THEN 1 ELSE 0,
     job     |-> made.job + IF Passed("job", fail_at) THEN 1 ELSE 0,
     usage   |-> made.usage
                 + IF fail_at = "none" /\ track = "ok" THEN 1 ELSE 0]

\* anonymous_service.py:116-131, 1028-1065: the rows after the invocation
UploadedRows(row, fail_at) ==
    [status |-> IF Passed("session", fail_at) THEN "uploaded" ELSE row.status,
     project |-> IF Passed("job", fail_at) THEN "processing"
                 ELSE IF fail_at = "job" THEN "failed"
                 ELSE IF Passed("project", fail_at) THEN "uploading"
                 ELSE row.project,
     transcription |-> row.transcription]

InitRequest ==
    /\ MergeIdle /\ RateIdle /\ SessionIdle /\ LaterIdle /\ TranscribeIdle /\ ExecutorIdle
    /\ ep \in Endpoints
    /\ ep_pc = "get_service"
    /\ svc_attempt = 0
    /\ op_attempt = 0
    /\ op_last = NoResult
    /\ response = NoResult
    /\ db \in DbStates
    /\ ep \in {"health", "rate_limit", "upload"} => db.status = "none"
    /\ session_age \in 0..MaxAge
    /\ db.status = "none" => session_age = 0
    /\ created = NoneCreated

\* routes/anonymous.py:33-68: one attempt of get_anonymous_service_with_retry;
\* routes/anonymous.py:119-137: the health route answers once it has the service
GetService ==
    /\ ep_pc = "get_service"
    /\ svc_attempt' = svc_attempt + 1
    /\ \E o \in Outcomes :
          IF o = "ok"
          THEN /\ ep_pc' = IF ep = "health" THEN "answered" ELSE "operation"
               /\ response' = IF ep = "health" THEN Result([status |-> "healthy"])
                              ELSE response
          ELSE IF MayRetry(svc_attempt, ServiceRetries(ep) - 1)
               THEN UNCHANGED <<ep_pc, response>>
               ELSE /\ ep_pc' = "answered"
                    /\ response' = Http(503, "service_unavailable")
    /\ UNCHANGED <<ep, op_attempt, op_last, db, session_age, created,
                   mergeVars, laterVars, rateVars, sessionVars, transcribeVars,
                   executorVars>>

\* routes/anonymous.py:85-116 and the route's own handlers: the invocation
\* that had this outcome is counted and the request returns, raises or goes
\* on to the next invocation
Handle(outcome) ==
    LET step == execute_with_retry(outcome, op_attempt, OperationRetries(ep)) IN
    /\ op_attempt' = op_attempt + 1
    /\ op_last' = outcome
    /\ ep_pc' = IF step.do = "retry" THEN "operation" ELSE "answered"
    /\ response' = IF step.do = "retry" THEN response ELSE step.response

\* routes/anonymous.py:173, 263-267, 295-299: a read operation is invoked
InvokeRead ==
    /\ ep_pc = "operation"
    /\ ep \in {"rate_limit", "status", "results"}
    /\ \E read \in Outcomes, read_transcription \in Outcomes :
          Handle(IF ep = "rate_limit" THEN get_rate_limit_info(read)
                 ELSE IF ep = "status"
                      THEN get_session_status(db, session_age, read)
                 ELSE get_blurred_results(db, session_age, read,
                                          read_transcription))
    /\ UNCHANGED <<ep, svc_attempt, db, session_age, created, mergeVars, laterVars,
                   rateVars, sessionVars, transcribeVars, executorVars>>

\* routes/anonymous.py:344-349: claim_session_for_user is invoked
InvokeClaim ==
    /\ ep_pc = "operation"
    /\ ep = "claim"
    /\ \E rpc \in Outcomes, build \in Outcomes :
          /\ Handle(claim_session_for_user(db, session_age, rpc, build))
          /\ db' = ClaimedRow(db, session_age, rpc)
    /\ UNCHANGED <<ep, svc_attempt, session_age, created, mergeVars, laterVars,
                   rateVars, sessionVars, transcribeVars, executorVars>>

\* routes/anonymous.py:222-229: create_anonymous_upload is invoked
InvokeUpload ==
    /\ ep_pc = "operation"
    /\ ep = "upload"
    /\ \E fail_at \in {UploadSteps[i] : i \in DOMAIN UploadSteps} \cup {"none"},
          track \in Outcomes :
          /\ Handle(create_anonymous_upload(fail_at))
          /\ created' = UploadCreates(created, fail_at, track)
          /\ db' = UploadedRows(db, fail_at)
    /\ UNCHANGED <<ep, svc_attempt, session_age, mergeVars, laterVars, rateVars,
                   sessionVars, transcribeVars, executorVars>>

\* a day passes while the request is being served
DayPasses ==
    /\ ep_pc \in {"get_service", "operation"}
    /\ db.status # "none"
    /\ session_age < MaxAge
    /\ session_age' = session_age + 1
    /\ UNCHANGED <<ep, ep_pc, svc_attempt, op_attempt, op_last, response, db,
                   created, mergeVars, laterVars, rateVars, sessionVars, transcribeVars,
                   executorVars>>

NextRequest ==
    GetService \/ InvokeRead \/ InvokeClaim \/ InvokeUpload \/ DayPasses

SpecRequest == InitRequest /\ [][NextRequest]_vars

-----------------------------------------------------------------------------
(* Properties of the anonymous routes                                       *)

Invoked == op_attempt' = op_attempt + 1

ServerError(outcome) ==
    outcome.kind = "exception" \/ (outcome.kind = "http" /\ outcome.status >= 500)

\* C16: a session is expired once more than 7 days have passed since its
\* creation; for an expired session get_session_status and
\* get_blurred_results answer 410 session_expired whatever the session's
\* status (500 when the session could not be read), never status data or a
\* preview; a session of 7 days or less is never answered as expired.
C16_ExpiredAnswers410 ==
    [][(Invoked /\ ep \in {"status", "results"} /\ db.status # "none")
          => IF session_age > 7
             THEN /\ op_last' \in {Http(410, "session_expired"),
                                   Http(500, "session_retrieval_failed")}
                  /\ response' # NoResult => response'.kind = "http"
             ELSE op_last' # Http(410, "session_expired")]_vars

C16_Witness ==
    /\ ep = "results"
    /\ db.status = "completed"
    /\ session_age = 8
    /\ op_attempt = 1
    /\ response = Http(410, "session_expired")

\* C17: one upload request invokes create_anonymous_upload at most once and
\* creates at most one storage object, one session, one project and one job.
C17_UploadInvokedOnce ==
    /\ ep = "upload"
         => /\ op_attempt <= 1
            /\ created.storage <= 1 /\ created.session <= 1
            /\ created.project <= 1 /\ created.job <= 1
    /\ ep # "upload" => created = NoneCreated

C17_Witness ==
    /\ ep = "upload"
    /\ ep_pc = "answered"
    /\ op_attempt = 1
    /\ response = Http(500, "upload_failed")
    /\ created = [storage |-> 1, session |-> 1, project |-> 0, job |-> 0,
                  usage |-> 0]

\* C18: no state-changing operation (upload, claim) is invoked a second time
\* within one request; only the three reads are invoked again.
C18_OnlyReadsReinvoked ==
    ep \in {"upload", "claim"} => op_attempt <= 1

\* C19: execute_with_retry invokes its operation at most max_retries + 1
\* times and get_anonymous_service_with_retry makes at most max_retries
\* attempts; an answered request has made between 1 and 3 attempts of each
\* step it reached.
C19_AttemptsBounded ==
    /\ svc_attempt <= ServiceRetries(ep) /\ svc_attempt <= 3
    /\ op_attempt <= OperationRetries(ep) + 1 /\ op_attempt <= 3
    /\ ep_pc \in {"operation", "answered"} => svc_attempt >= 1
    /\ (ep_pc = "answered" /\ ep # "health"
          /\ response # Http(503, "service_unavailable")) => op_attempt >= 1

C19_Witness ==
    /\ ep_pc = "answered"
    /\ svc_attempt = 3
    /\ op_attempt = 3
    /\ response = Http(500, "session_retrieval_failed")

\* C20: the operation is invoked again only after an invocation that ended
\* with an HTTP error of status 5xx or with a non-HTTP exception; every other
\* outcome (a result, an HTTPException of status below 500) ends the call
\* after that invocation and is passed on unchanged.
C20_ReinvokedOnlyAfterServerError ==
    [][Invoked
          => /\ op_attempt >= 1 => ServerError(op_last)
             /\ ~ServerError(op_last')
                  => (ep_pc' = "answered" /\ response' = op_last')]_vars

-----------------------------------------------------------------------------
(* SpecSplit: one AudioProcessor.split_audio_into_chunks call              *)
(* The lengths are whole units of time (the code counts milliseconds).     *)

MaxAudio == 6
MaxChunkDuration == 3
MaxOverlap == 2

\* the iterations of the while loop the model follows: one more than any
\* run whose every iteration advances `start` can make
SplitBudget == MaxAudio + 1

Min(a, b) == IF a < b THEN a ELSE b

\* audio_utils.py:170: end = min(start + chunk_duration_ms, len(audio))
SplitEnd(s, len, duration) == Min(s + duration, len)

SplitNextStart_abut(end, len, ovl) == end

\* audio_utils.py:185-188: the next chunk starts `overlap` before the end of
\* this one, unless this one reached the end of the audio
SplitNextStart(end, len, ovl) == IF end < len THEN end - ovl ELSE end

InitSplit ==
    /\ MergeIdle /\ RateIdle /\ SessionIdle
    /\ TranscribeIdle /\ ExecutorIdle /\ RequestIdle /\ UsageIdle
    /\ audio_len \in 0..MaxAudio
    /\ chunk_duration \in 1..MaxChunkDuration
    /\ overlap \in 0..MaxOverlap
    /\ split_start = 0
    /\ chunk_paths = <<>>
    /\ split_pc = "loop"

\* audio_utils.py:168-190: one iteration of `while start < len(audio)`
SplitIteration ==
    /\ split_pc = "loop"
    /\ split_start < audio_len
    /\ Len(chunk_paths) < SplitBudget
    /\ LET end == SplitEnd(split_start, audio_len, chunk_duration)
       IN /\ chunk_paths' = Append(chunk_paths,
                                   [start |-> split_start, end |-> end])
          /\ split_start' = SplitNextStart(end, audio_len, overlap)
    /\ UNCHANGED <<audio_len, chunk_duration, overlap, split_pc, mergeVars,
                   rateVars, sessionVars, transcribeVars, executorVars,
                   requestVars, usageVars>>

\* audio_utils.py:168, 193: the loop condition fails, return chunk_paths
SplitReturn ==
    /\ split_pc = "loop"
    /\ ~(split_start < audio_len)
    /\ split_pc' = "returned"
    /\ UNCHANGED <<audio_len, chunk_duration, overlap, split_start,
                   chunk_paths, mergeVars, rateVars, sessionVars,
                   transcribeVars, executorVars, requestVars, usageVars>>

\* audio_utils.py:161, 177-181, 195-197: AudioSegment.from_file or an export
\* raises; the error is logged and raised again, the files written stay
SplitRaises ==
    /\ split_pc = "loop"
    /\ split_start < audio_len
    /\ split_pc' = "raised"
    /\ UNCHANGED <<audio_len, chunk_duration, overlap, split_start,
                   chunk_paths, mergeVars, rateVars, sessionVars,
                   transcribeVars, executorVars, requestVars, usageVars>>

NextSplit == SplitIteration \/ SplitReturn \/ SplitRaises

SpecSplit == InitSplit /\ [][NextSplit]_vars

\* the returned chunks tile the audio: at most chunk_duration long and not
\* empty, from 0 to the end, each starting `overlap` before the end of the
\* previous one, every unit of the audio inside a chunk
ChunksTile ==
    /\ chunk_paths # <<>>
    /\ chunk_paths[1].start = 0
    /\ chunk_paths[Len(chunk_paths)].end = audio_len
    /\ \A i \in 1..Len(chunk_paths) :
          /\ chunk_paths[i].start < chunk_paths[i].end
          /\ chunk_paths[i].end - chunk_paths[i].start <= chunk_duration
          /\ i > 1 => chunk_paths[i].start = chunk_paths[i - 1].end - overlap
    /\ \A t \in 0..(audio_len - 1) :
          \E i \in 1..Len(chunk_paths) :
             chunk_paths[i].start <= t /\ t + 1 <= chunk_paths[i].end

\* C21 as stated: for audio of any length and a chunk duration greater than
\* the overlap, the returned chunks each last at most the chunk duration and
\* are not empty, the first starts at 0, the last ends at the audio's end,
\* each later one starts exactly the overlap before the end of the previous
\* one, and every instant lies in a chunk.
C21_ChunksTileAnyLength ==
    (split_pc = "returned" /\ chunk_duration > overlap) => ChunksTile

\* C21 amended: the same for audio that is not empty (for audio of length 0
\* the loop body never runs and the list returned is empty, so there is no
\* first and no last chunk).
C21_ChunksTile ==
    (split_pc = "returned" /\ chunk_duration > overlap /\ audio_len > 0)
       => ChunksTile

C21_Witness ==
    /\ split_pc = "returned"
    /\ chunk_duration > overlap
    /\ overlap > 0
    /\ Len(chunk_paths) >= 3
    /\ LET last == chunk_paths[Len(chunk_paths)]
       IN last.end - last.start < chunk_duration

\* C22: split_audio_into_chunks terminates for every audio length, every
\* positive chunk duration and every non-negative overlap: every iteration of
\* its loop moves `start` towards the end of the audio (the distance
\* len(audio) - start, which the loop condition keeps positive, decreases).
C22_EveryIterationAdvances ==
    [][chunk_paths' # chunk_paths => split_start' > split_start]_vars

-----------------------------------------------------------------------------
(* SpecUsage: the upload requests of one client IP against the hourly and  *)
(* daily limits.  The hours of a run lie in one day.  A request is handled *)
(* by one server process; requests handled by different processes          *)
(* interleave between the limit check and the usage write.                 *)

\* models/anonymous.py:133-134: AnonymousUsageLimits (999 each), scaled
max_uploads_per_hour == 2
max_uploads_per_day == 3

RECURSIVE SumUpTo(_, _)
SumUpTo(f, h) == IF h < 0 THEN 0 ELSE f[h] + SumUpTo(f, h - 1)

\* anonymous_service.py:1461-1484: the rows of the IP created in the current
\* hour; when the read raises, the limit itself (the request is refused)
get_hourly_usage(rows, h, read) ==
    IF read = "raises" THEN max_uploads_per_hour ELSE rows[h]

\* anonymous_service.py:1486-1509: the same for the current day
get_daily_usage(rows, read) ==
    IF read = "raises" THEN max_uploads_per_day ELSE SumUpTo(rows, MaxHour)

\* anonymous_service.py:698: if hour_usage >= max_uploads_per_hour
HourlyLimitReached(usage) == usage >= max_uploads_per_hour

\* anonymous_service.py:714: if day_usage >= max_uploads_per_day
DailyLimitReached(usage) == usage >= max_uploads_per_day

\* anonymous_service.py:675-735: the answer of _check_rate_limits for a
\* request that carries a client IP
check_rate_limits(rows, h, read_hour, read_day) ==
    IF HourlyLimitReached(get_hourly_usage(rows, h, read_hour))
    THEN Http(429, "rate_limit_exceeded")
    ELSE IF DailyLimitReached(get_daily_usage(rows, read_day))
         THEN Http(429, "daily_limit_exceeded")
         ELSE Result("passed")

InitUsage ==
    /\ MergeIdle /\ RateIdle /\ SessionIdle
    /\ TranscribeIdle /\ ExecutorIdle /\ RequestIdle /\ SplitIdle
    /\ hour = 0
    /\ usage_tracking = [h \in Hours |-> 0]
    /\ up_pc = [u \in Uploads |-> "check"]
    /\ accepted = [h \in Hours |-> 0]

\* anonymous_service.py:90: await self._check_rate_limits(client_ip, ...)
UploadCheck(u) ==
    /\ up_pc[u] = "check"
    /\ \E read_hour \in Outcomes, read_day \in Outcomes :
          up_pc' = [up_pc EXCEPT ![u] =
                       IF check_rate_limits(usage_tracking, hour, read_hour,
                                            read_day) = Result("passed")
                       THEN "admitted" ELSE "rejected"]
    /\ UNCHANGED <<hour, usage_tracking, accepted, mergeVars, rateVars,
                   sessionVars, transcribeVars, executorVars, requestVars,
                   splitVars>>

\* anonymous_service.py:93-180: validation and the creating steps (one of
\* them may end the request with an error), then _track_anonymous_usage,
\* whose failure is logged and swallowed (1139-1145), then the response
UploadFinish(u) ==
    /\ up_pc[u] = "admitted"
    /\ \E create \in Outcomes, track \in Outcomes :
          IF create = "raises"
          THEN /\ up_pc' = [up_pc EXCEPT ![u] = "failed"]
               /\ UNCHANGED <<usage_tracking, accepted>>
          ELSE /\ up_pc' = [up_pc EXCEPT ![u] = "accepted"]
               /\ usage_tracking' =
                     IF track = "ok"
                     THEN [usage_tracking EXCEPT ![hour] = @ + 1]
                     ELSE usage_tracking
               /\ accepted' = [accepted EXCEPT ![hour] = @ + 1]
    /\ UNCHANGED <<hour, mergeVars, rateVars, sessionVars, transcribeVars,
                   executorVars, requestVars, splitVars>>

\* anonymous_service.py:1471: hour_start = utcnow().replace(minute=0, ...)
HourPasses ==
    /\ hour < MaxHour
    /\ hour' = hour + 1
    /\ UNCHANGED <<usage_tracking, up_pc, accepted, mergeVars, rateVars,
                   sessionVars, transcribeVars, executorVars, requestVars,
                   splitVars>>

NextUsage ==
    \/ \E u \in Uploads : UploadCheck(u)
    \/ \E u \in Uploads : UploadFinish(u)
    \/ HourPasses

SpecUsage == InitUsage /\ [][NextUsage]_vars

\* C23: for one client IP, the uploads accepted within one clock hour never
\* exceed max_uploads_per_hour, also when requests are handled concurrently
\* and when the usage-tracking write of an accepted upload fails.
C23_AcceptedWithinHourlyLimit ==
    \A h \in Hours : accepted[h] <= max_uploads_per_hour

-----------------------------------------------------------------------------
(* FairSpecSession: SpecSession with the request and the background job     *)
(* scheduled fairly.  The request runs on the event loop and the job on a   *)
(* worker thread of the executor: each takes its next step once the call    *)
(* it waits for has returned or raised.  Claims and the passing of time are *)
(* left to the environment.                                                 *)

RequestStep ==
    \/ ReqCreateSession \/ ReqCreateProject \/ ReqLinkProject \/ ReqSubmitJob
    \/ ReqProjectProcessing \/ ReqTrackUsage

JobStep ==
    \/ JobSelectSession \/ JobSessionProcessing \/ JobProjectProcessing
    \/ JobTranscribe \/ JobInsertTranscription \/ JobSessionCompleted
    \/ JobProjectCompleted
    \/ HandlerLookup \/ HandlerSessionFailed \/ HandlerProjectFailed

FairSpecSession ==
    SpecSession /\ WF_vars(RequestStep) /\ WF_vars(JobStep)

\* the upload was answered with success
UploadAccepted == req_pc = "done"

\* neither status is one of uploaded, uploading, processing (a completed
\* session may have been claimed since)
StatusesSettled ==
    /\ sess_status \in {"completed", "failed", "claimed"}
    /\ proj_status \in {"completed", "failed"}

\* C24: under fair scheduling every accepted anonymous upload eventually
\* reaches a state in which its session status and its project status are
\* completed or failed, and they stay so.
C24_StatusesSettle == [](UploadAccepted => <>[]StatusesSettled)

-----------------------------------------------------------------------------
(* Properties of the claim request                                          *)

\* the latest invocation recorded the claim of the requesting user and then
\* raised while it built its response (anonymous_service.py:479-522)
ClaimRecordedThenRaised ==
    ep = "claim" /\ op_last = Http(500, "claim_failed")

\* C25: a claim request in which the atomic claim of the session succeeded
\* for the requesting user never answers that user with 409 already claimed,
\* also when the invocation that recorded the claim raised afterwards and the
\* request invoked the claim again.
C25_NoAlreadyClaimedAfterOwnClaim ==
    [][ClaimRecordedThenRaised
         => response' # Http(409, "Session already claimed")]_vars

-----------------------------------------------------------------------------
(* Properties of the results request                                        *)

\* C26: a completed session has its transcription_id set and a transcription
\* row referencing it, so get_blurred_results on a completed, unexpired
\* session never answers 404 transcription_not_found.
C26_CompletedNeverNotFound ==
    (/\ ep = "results"
     /\ db.status = "completed"
     /\ db.transcription
     /\ ~Expired(session_age))
       => response # Http(404, "transcription_not_found")

-----------------------------------------------------------------------------
(* Properties of transcribe: temporary files and the error raised          *)

\* C27: when transcribe finishes, by returning or by raising, every
\* temporary file created for the call (a compressed copy, the chunk files)
\* has been deleted.
C27_NoTempFilesLeft == TranscribeEnded => temp_files = {}

\* C29: when transcribe fails and no fallback provider is available, the
\* caller receives the original error unchanged, whichever step failed: the
\* file validation, the provider selection, the rate-limit check, the file
\* preparation or the provider call.
C29_OriginalErrorRaised ==
    (t_pc = "raised" /\ Len(t_attempts) = 1)
       => t_error = t_attempts[1].error

-----------------------------------------------------------------------------
(* Properties of the wait time the rate limiter reports                     *)

\* C28: when a transcribe call is rejected by the rate limiter with wait
\* time w, then 0 < w <= rate_limit_window, and a call made w seconds later,
\* with no submission recorded in between, is admitted.
C28_WaitTimeAdmits ==
    [][\A w \in Workers :
          (wpc[w] = "idle" /\ wpc'[w] = "rejected")
          => LET wait_time == WaitTime(request_times, now)
             IN /\ wait_time > 0
                /\ wait_time <= rate_limit_window
                /\ ~RateLimitRaises(request_times', now + wait_time)]_vars

-----------------------------------------------------------------------------
(* Properties of a rejected upload                                          *)

UploadRejections ==
    {Http(429, "rate_limit_exceeded"), Http(413, "file_too_large"),
     Http(400, "invalid_file_type")}

\* C30: when create_anonymous_upload rejects a request because of the rate
\* limit (429) or of the file validation (413 for the size, 400 for the
\* extension), nothing has been written: no storage object, no session row,
\* no project row, no usage row, and no background job was submitted.
C30_RejectionWritesNothing ==
    (ep = "upload" /\ op_last \in UploadRejections)
       => /\ created = NoneCreated
          /\ db.status = "none"
          /\ db.project = "none"
          /\ response = op_last

C30_Witness ==
    /\ ep = "upload"
    /\ ep_pc = "answered"
    /\ op_attempt = 1
    /\ response = Http(413, "file_too_large")
    /\ created = NoneCreated
====
